---- MODULE Spec2Model ----
(***************************************************************************)
(* file-filter-action: a model of src/file_filter_action.py.               *)
(*                                                                         *)
(* A Python str is a sequence of one-character strings, so that split,     *)
(* strip, fnmatch, str() and json.dumps are computed and not assumed.      *)
(* Python's None is the value None below, which is no str.                 *)
(***************************************************************************)
EXTENDS Integers, Sequences, FiniteSets, TLC

VARIABLES
    pc,             \* position of the run in main() / get_changed_files()
    environ,        \* os.environ: a function from the names that are set to their values
    patterns_input, \* main: local
    token,          \* main: local
    base_ref,       \* main: local, the base_ref argument of get_changed_files
    head_ref,       \* main: local, the head_ref argument of get_changed_files
    repo_name,      \* main: local
    patterns,       \* main: local
    github_client,  \* main: local, the token the client was built with
    gcf_base_ref,   \* get_changed_files: parameter base_ref, reassigned at line 50
    gcf_head_ref,   \* get_changed_files: parameter head_ref, reassigned at line 53
    event_file,     \* what open()/json.load() found at GITHUB_EVENT_PATH
    pr_number,      \* get_changed_files: local
    ret,            \* return value of get_changed_files
    changed_files,  \* main: local
    matched_files,  \* main: local
    calls,          \* the calls made on the metadata-source client, in order
    stderr,         \* messages printed to sys.stderr, in order
    stdout,         \* the legacy ::set-output lines printed to sys.stdout
    sink0,          \* content of the GITHUB_OUTPUT file before the run
    sink,           \* content of the GITHUB_OUTPUT file
    exit_code,      \* the code given to sys.exit, NoExit while running
    text,           \* SpecParse: the argument of parse_patterns
    parsed,         \* SpecParse: the outcome of parse_patterns
    files,          \* SpecMatch: the files argument of match_files
    pats,           \* SpecMatch: the patterns argument of match_files
    matches         \* SpecMatch: the result of match_files

vars ==
    <<pc, environ, patterns_input, token, base_ref, head_ref, repo_name, patterns,
      github_client, gcf_base_ref, gcf_head_ref, event_file, pr_number, ret,
      changed_files, matched_files, calls, stderr, stdout, sink0, sink, exit_code, text, parsed, files, pats,
      matches>>

mainVars ==
    <<patterns_input, token, patterns, github_client, changed_files,
      matched_files, stdout, sink, exit_code>>

\* the variables of main() that get_changed_files leaves alone
resolverKeeps ==
    <<patterns_input, token, patterns, github_client, changed_files, matched_files,
      stdout, sink>>

gcfVars ==
    <<gcf_base_ref, gcf_head_ref, event_file, pr_number, ret, calls>>

unitVars ==
    <<text, parsed, files, pats, matches>>

----------------------------------------------------------------------------
(* Python values *)

None ==
    <<"None">>

NoExit ==
    -1

\* bool(x) for x an Optional[str]: None and '' are falsy
Truthy(x) ==
    x # None /\ x # <<>>

\* the characters str.split() and str.strip() treat as whitespace
Whitespace ==
    {" ", "\n", "\t"}

Min(S) ==
    CHOOSE x \in S : \A y \in S : x <= y

Max(S) ==
    CHOOSE x \in S : \A y \in S : x >= y

\* the sequences over S of length at most n
SeqUpTo(S, n) ==
    UNION {[1..k -> S] : k \in 0..n}

----------------------------------------------------------------------------
(* parse_patterns *)

\* str.strip(): leading and trailing whitespace removed
strip(s) ==
    LET keep == {i \in 1..Len(s) : s[i] \notin Whitespace}
    IN  IF keep = {} THEN <<>> ELSE SubSeq(s, Min(keep), Max(keep))

\* str.split() without arguments, scanning s from index i: cur is the token being
\* read, acc the tokens read; runs of whitespace separate, no token is empty
RECURSIVE splitFrom(_, _, _, _)
splitFrom(s, i, cur, acc) ==
    LET flushed == IF cur = <<>> THEN acc ELSE Append(acc, cur)
    IN  IF i > Len(s) THEN flushed
        ELSE IF s[i] \in Whitespace THEN splitFrom(s, i + 1, <<>>, flushed)
        ELSE splitFrom(s, i + 1, Append(cur, s[i]), acc)

split(s) ==
    splitFrom(s, 1, <<>>, <<>>)

\* [p.strip() for p in toks if p.strip()]
RECURSIVE stripNonEmpty(_)
stripNonEmpty(toks) ==
    IF toks = <<>> THEN <<>>
    ELSE LET p == strip(Head(toks))
         IN  (IF p # <<>> THEN <<p>> ELSE <<>>) \o stripNonEmpty(Tail(toks))

Returned(v) ==
    [raised |-> "", value |-> v]

Raised(e) ==
    [raised |-> e, value |-> <<>>]

\* a plausible slip: the all-whitespace input returns the empty list
parse_patterns_no_raise(input) ==
    IF ~Truthy(input) THEN Returned(<<>>)
    ELSE Returned(stripNonEmpty(split(input)))

parse_patterns(input) ==
    IF ~Truthy(input) THEN Returned(<<>>)
    ELSE LET ps == stripNonEmpty(split(input))
         IN  IF ps = <<>> THEN Raised("ValueError") ELSE Returned(ps)

----------------------------------------------------------------------------
(* match_files *)

\* fnmatch.fnmatch(name, pat) on POSIX (normcase is the identity): the whole
\* name against the pattern, '*' any run of characters ('/' included), '?' any
\* one character, any other character itself.  The patterns of PatternSet
\* hold no '[', so the bracket expressions of fnmatch are not modelled.
RECURSIVE fnmatchFrom(_, _, _, _)
fnmatchFrom(name, i, pat, j) ==
    IF j > Len(pat) THEN i > Len(name)
    ELSE IF pat[j] = "*"
        THEN \/ fnmatchFrom(name, i, pat, j + 1)
             \/ i <= Len(name) /\ fnmatchFrom(name, i + 1, pat, j)
    ELSE IF pat[j] = "?"
        THEN i <= Len(name) /\ fnmatchFrom(name, i + 1, pat, j + 1)
    ELSE i <= Len(name) /\ name[i] = pat[j] /\ fnmatchFrom(name, i + 1, pat, j + 1)

fnmatch(name, pat) ==
    fnmatchFrom(name, 1, pat, 1)

\* the inner loop, for pattern in patterns, from index j: what it appends to matches
RECURSIVE matchInner(_, _, _)
matchInner(file_path, ps, j) ==
    IF j > Len(ps) THEN <<>>
    ELSE IF fnmatch(file_path, ps[j]) THEN <<file_path>>
    ELSE matchInner(file_path, ps, j + 1)

\* a plausible slip: the break is missing
RECURSIVE matchInnerNoBreak(_, _, _)
matchInnerNoBreak(file_path, ps, j) ==
    IF j > Len(ps) THEN <<>>
    ELSE (IF fnmatch(file_path, ps[j]) THEN <<file_path>> ELSE <<>>)
         \o matchInnerNoBreak(file_path, ps, j + 1)

\* the outer loop, for file_path in files
RECURSIVE matchOuter(_, _)
matchOuter(fs, ps) ==
    IF fs = <<>> THEN <<>>
    ELSE matchInner(Head(fs), ps, 1) \o matchOuter(Tail(fs), ps)

RECURSIVE matchOuterNoBreak(_, _)
matchOuterNoBreak(fs, ps) ==
    IF fs = <<>> THEN <<>>
    ELSE matchInnerNoBreak(Head(fs), ps, 1) \o matchOuterNoBreak(Tail(fs), ps)

match_files_no_break(fs, ps) ==
    matchOuterNoBreak(fs, ps)

match_files(fs, ps) ==
    matchOuter(fs, ps)

----------------------------------------------------------------------------
(* the values of the runs *)

\* the longest file listing the metadata source reports
MaxChanged ==
    2

\* the longest argument text of parse_patterns in SpecParse
MaxTextLen ==
    4

\* the longest files argument of match_files in SpecMatch
MaxFiles ==
    2

\* the longest patterns argument of match_files in SpecMatch
MaxPatterns ==
    2

TextAlphabet ==
    {"a", "*", " ", "\n"}

\* 's/m.p', 'd/r.m', 'p.j'
FileNames ==
    {<<"s", "/", "m", ".", "p">>, <<"d", "/", "r", ".", "m">>, <<"p", ".", "j">>}

\* '*.p', '*.m', 'd/*', 's/?.p', '*', 'p.j'
PatternSet ==
    {<<"*", ".", "p">>, <<"*", ".", "m">>, <<"d", "/", "*">>,
     <<"s", "/", "?", ".", "p">>, <<"*">>, <<"p", ".", "j">>}

\* the file names the metadata source reports: 's/m.p' and 'q"j'
ChangedNames ==
    {<<"s", "/", "m", ".", "p">>, <<"q", "\"", "j">>}

\* values of INPUT_PATTERNS: ' ', '*.p', '*.p\n*'
PatternTexts ==
    {<<" ">>, <<"*", ".", "p">>, <<"*", ".", "p", "\n", "*">>}

PrNumbers ==
    {123}

\* the fixed fallback literal of line 50
MainRef ==
    <<"m", "a", "i", "n">>

\* what each name of os.environ may hold in a run of main(); None: not set
MainEnvChoices ==
    [INPUT_PATTERNS : PatternTexts \cup {None, <<>>},
     INPUT_TOKEN : {None, <<>>, <<"t", "1">>},
     GITHUB_TOKEN : {None, <<>>, <<"t", "2">>},
     INPUT_BASE_REF : {None, <<"b", "1">>},
     INPUT_HEAD_REF : {None, <<"h", "1">>},
     GITHUB_REPOSITORY : {None, <<>>, <<"o", "/", "r">>},
     GITHUB_EVENT_PATH : {None, <<"e", "v">>},
     GITHUB_BASE_REF : {None},
     GITHUB_HEAD_REF : {None, <<>>},
     GITHUB_SHA : {None, <<"c", "1">>},
     GITHUB_OUTPUT : {None, <<"o", "u", "t">>}]

\* what each name of os.environ may hold in a call of get_changed_files
ResolverEnvChoices ==
    [GITHUB_EVENT_PATH : {None, <<"e", "v">>},
     GITHUB_BASE_REF : {None, <<>>, <<"b", "2">>},
     GITHUB_HEAD_REF : {None, <<>>, <<"h", "2">>},
     GITHUB_SHA : {None, <<>>, <<"c", "1">>}]

\* the base_ref and head_ref arguments of a call of get_changed_files
BaseRefArgs ==
    {None, <<>>, <<"b", "1">>}

HeadRefArgs ==
    {None, <<>>, <<"h", "1">>}

\* the content of the output file before the run
PriorSinks ==
    {<<>>, <<"k", "=", "v", "\n">>}

\* os.environ with the names of c that are set
Present(c) ==
    [k \in {n \in DOMAIN c : c[n] # None} |-> c[k]]

\* os.environ.get(k, d)
Get(k, d) ==
    IF k \in DOMAIN environ THEN environ[k] ELSE d

----------------------------------------------------------------------------
(* the event-context file and json.load *)

JNull ==
    [type |-> "null", keys |-> {}, items |-> <<>>, value |-> 0]

JInt(n) ==
    [type |-> "int", keys |-> {}, items |-> <<>>, value |-> n]

JList ==
    [type |-> "list", keys |-> {}, items |-> <<>>, value |-> 0]

\* a JSON object of at most one key
JEmptyDict ==
    [type |-> "dict", keys |-> {}, items |-> <<>>, value |-> 0]

JDict(k, v) ==
    [type |-> "dict", keys |-> {k}, items |-> <<v>>, value |-> 0]

OnDisk(state, data) ==
    [state |-> state, data |-> data]

Unread ==
    OnDisk("unread", JNull)

\* what may be at GITHUB_EVENT_PATH: no file, a file open() cannot read, a file
\* that is no JSON, or a JSON document
EventFiles ==
    {OnDisk("missing", JNull), OnDisk("unreadable", JNull), OnDisk("malformed", JNull)}
    \cup {OnDisk("json", d) :
            d \in {JInt(5), JNull, JList, JEmptyDict, JDict("action", JInt(1)),
                   JDict("pull_request", JNull), JDict("pull_request", JList),
                   JDict("pull_request", JEmptyDict),
                   JDict("pull_request", JDict("title", JInt(1)))}
                  \cup {JDict("pull_request", JDict("number", JInt(n))) : n \in PrNumbers}}

NoException ==
    ""

Value(v) ==
    [exc |-> NoException, val |-> v]

Raise(e) ==
    [exc |-> e, val |-> JNull]

\* key in data
Contains(data, key) ==
    IF data.type = "dict" THEN Value(key \in data.keys)
    ELSE IF data.type = "list" THEN Value(FALSE)
    ELSE Raise("TypeError")

\* data[key]
GetItem(data, key) ==
    IF data.type = "dict"
        THEN IF key \in data.keys THEN Value(data.items[1]) ELSE Raise("KeyError")
    ELSE Raise("TypeError")

\* open(path) and json.load(f), lines 37-38
LoadEvent(ev) ==
    IF ev.state = "missing" THEN Raise("FileNotFoundError")
    ELSE IF ev.state = "unreadable" THEN Raise("PermissionError")
    ELSE IF ev.state = "malformed" THEN Raise("JSONDecodeError")
    ELSE Value(ev.data)

\* lines 37-41: the exception raised, whether event_data holds 'pull_request',
\* and event_data['pull_request']['number']
ReadPrNumber(ev) ==
    LET loaded == LoadEvent(ev)
        has == Contains(loaded.val, "pull_request")
        pr == GetItem(loaded.val, "pull_request")
        num == GetItem(pr.val, "number")
        result(e, f, n) == [exc |-> e, found |-> f, number |-> n]
    IN  IF loaded.exc # NoException THEN result(loaded.exc, FALSE, JNull)
        ELSE IF has.exc # NoException THEN result(has.exc, FALSE, JNull)
        ELSE IF ~has.val THEN result(NoException, FALSE, JNull)
        ELSE IF pr.exc # NoException THEN result(pr.exc, FALSE, JNull)
        ELSE IF num.exc # NoException THEN result(num.exc, FALSE, JNull)
        ELSE result(NoException, TRUE, num.val)

\* except (FileNotFoundError, KeyError, json.JSONDecodeError): pass
Swallowed ==
    {"FileNotFoundError", "KeyError", "JSONDecodeError"}

----------------------------------------------------------------------------
(* get_changed_files *)

\* the errors the metadata-source client raises: github.GithubException, or
\* another Exception (a connection error, say) that is none of the three
\* classes of line 45
ClientErrors ==
    {"GithubException", "Exception"}

\* the file objects a listing of the metadata source holds, in reported order
Listings ==
    SeqUpTo({[filename |-> n] : n \in ChangedNames}, MaxChanged)

Call(op, args, outcome, listing) ==
    [op |-> op, args |-> args, outcome |-> outcome, listing |-> listing]

Message(msg, exc) ==
    [msg |-> msg, exc |-> exc]

\* a plausible slip: the listing is returned in reverse
filenames_reversed(listing) ==
    [i \in 1..Len(listing) |-> listing[Len(listing) + 1 - i].filename]

\* [f.filename for f in files]
filenames(listing) ==
    [i \in 1..Len(listing) |-> listing[i].filename]

\* lines 49-50
resolve_base(b) ==
    IF ~Truthy(b) THEN Get("GITHUB_BASE_REF", MainRef) ELSE b

\* lines 52-53
resolve_head(h) ==
    IF ~Truthy(h) THEN Get("GITHUB_HEAD_REF", Get("GITHUB_SHA", None)) ELSE h

\* a plausible slip: the handler of lines 64-66 is missing, and an error that is
\* no GithubException leaves get_changed_files for the handler of lines 127-129
CaughtGithubExceptionOnly(exc) ==
    IF exc = "GithubException"
        THEN /\ stderr' = Append(stderr, Message("GitHub API error", exc))
             /\ ret' = <<>>
             /\ pc' = "returned"
             /\ UNCHANGED exit_code
    ELSE /\ stderr' = Append(stderr, Message("Error: ", exc))
         /\ exit_code' = 1
         /\ pc' = "exited"
         /\ UNCHANGED ret

\* the handlers of lines 61-66: the error is printed and [] returned
Caught(exc) ==
    /\ stderr' = Append(stderr,
            IF exc = "GithubException" THEN Message("GitHub API error", exc)
            ELSE Message("Error getting changed files", exc))
    /\ ret' = <<>>
    /\ pc' = "returned"
    /\ UNCHANGED exit_code

\* line 32: repo = github_client.get_repo(repo_name)
GetRepo ==
    /\ pc = "get_repo"
    /\ \E out \in {"ok"} \cup ClientErrors :
        /\ calls' = Append(calls, Call("get_repo", <<repo_name>>, out, <<>>))
        /\ IF out = "ok" THEN pc' = "pr_context" /\ UNCHANGED <<ret, stderr, exit_code>>
           ELSE Caught(out)
    /\ UNCHANGED <<environ, base_ref, head_ref, repo_name, gcf_base_ref, gcf_head_ref,
                   event_file, pr_number, sink0, resolverKeeps, unitVars>>

\* lines 35-41 and 45-46: the event-context file is read when GITHUB_EVENT_PATH is set
PrContext ==
    /\ pc = "pr_context"
    /\ IF "GITHUB_EVENT_PATH" \notin DOMAIN environ
        THEN pc' = "refs" /\ UNCHANGED <<event_file, pr_number, ret, stderr, exit_code>>
        ELSE \E ev \in EventFiles :
            LET r == ReadPrNumber(ev)
            IN  /\ event_file' = ev
                /\ IF r.exc \in Swallowed
                       THEN pc' = "refs" /\ UNCHANGED <<pr_number, ret, stderr, exit_code>>
                   ELSE IF r.exc # NoException
                       THEN Caught(r.exc) /\ UNCHANGED pr_number
                   ELSE IF ~r.found
                       THEN pc' = "refs" /\ UNCHANGED <<pr_number, ret, stderr, exit_code>>
                   ELSE /\ pr_number' = r.number.value
                        /\ pc' = "get_pull"
                        /\ UNCHANGED <<ret, stderr, exit_code>>
    /\ UNCHANGED <<environ, base_ref, head_ref, repo_name, gcf_base_ref, gcf_head_ref,
                   calls, sink0, resolverKeeps, unitVars>>

\* line 42: pr = repo.get_pull(pr_number)
GetPull ==
    /\ pc = "get_pull"
    /\ \E out \in {"ok"} \cup ClientErrors :
        /\ calls' = Append(calls, Call("get_pull", <<pr_number>>, out, <<>>))
        /\ IF out = "ok" THEN pc' = "get_files" /\ UNCHANGED <<ret, stderr, exit_code>>
           ELSE Caught(out)
    /\ UNCHANGED <<environ, base_ref, head_ref, repo_name, gcf_base_ref, gcf_head_ref,
                   event_file, pr_number, sink0, resolverKeeps, unitVars>>

\* lines 43-44: files = pr.get_files(); return [f.filename for f in files]
GetFiles ==
    /\ pc = "get_files"
    /\ \/ \E listing \in Listings :
            /\ calls' = Append(calls, Call("get_files", <<>>, "ok", listing))
            /\ ret' = filenames(listing)
            /\ pc' = "returned"
            /\ UNCHANGED <<stderr, exit_code>>
       \/ \E out \in ClientErrors :
            /\ calls' = Append(calls, Call("get_files", <<>>, out, <<>>))
            /\ Caught(out)
    /\ UNCHANGED <<environ, base_ref, head_ref, repo_name, gcf_base_ref, gcf_head_ref,
                   event_file, pr_number, sink0, resolverKeeps, unitVars>>

\* lines 49-60: the refs are resolved and compared, or the warning is printed
CompareRefs ==
    /\ pc = "refs"
    /\ gcf_base_ref' = resolve_base(gcf_base_ref)
    /\ gcf_head_ref' = resolve_head(gcf_head_ref)
    /\ IF Truthy(gcf_head_ref')
        THEN \/ \E listing \in Listings :
                    /\ calls' = Append(calls,
                            Call("compare", <<gcf_base_ref', gcf_head_ref'>>, "ok", listing))
                    /\ ret' = filenames(listing)
                    /\ pc' = "returned"
                    /\ UNCHANGED <<stderr, exit_code>>
             \/ \E out \in ClientErrors :
                    /\ calls' = Append(calls,
                            Call("compare", <<gcf_base_ref', gcf_head_ref'>>, out, <<>>))
                    /\ Caught(out)
        ELSE /\ stderr' = Append(stderr,
                    Message("Warning: Could not determine changed files", NoException))
             /\ ret' = <<>>
             /\ pc' = "returned"
             /\ UNCHANGED <<calls, exit_code>>
    /\ UNCHANGED <<environ, base_ref, head_ref, repo_name, event_file, pr_number, sink0,
                   resolverKeeps, unitVars>>

get_changed_files ==
    GetRepo \/ PrContext \/ GetPull \/ GetFiles \/ CompareRefs

----------------------------------------------------------------------------
(* set_output *)

Digits ==
    <<"0", "1", "2", "3", "4", "5", "6", "7", "8", "9">>

\* str(n) for an int n >= 0
RECURSIVE str(_)
str(n) ==
    IF n < 10 THEN <<Digits[n + 1]>>
    ELSE str(n \div 10) \o <<Digits[(n % 10) + 1]>>

\* the characters json.dumps writes for one character of a string
json_char(c) ==
    IF c = "\"" THEN <<"\\", "\"">>
    ELSE IF c = "\\" THEN <<"\\", "\\">>
    ELSE IF c = "\n" THEN <<"\\", "n">>
    ELSE IF c = "\t" THEN <<"\\", "t">>
    ELSE <<c>>

RECURSIVE json_string_body(_)
json_string_body(s) ==
    IF s = <<>> THEN <<>> ELSE json_char(Head(s)) \o json_string_body(Tail(s))

json_string(s) ==
    <<"\"">> \o json_string_body(s) \o <<"\"">>

RECURSIVE json_items(_)
json_items(l) ==
    IF l = <<>> THEN <<>>
    ELSE IF Len(l) = 1 THEN json_string(l[1])
    ELSE json_string(Head(l)) \o <<",", " ">> \o json_items(Tail(l))

\* json.dumps(l) for a list of str
json_dumps(l) ==
    <<"[">> \o json_items(l) \o <<"]">>

\* f'{name}={value}\n'
output_line(name, value) ==
    name \o <<"=">> \o value \o <<"\n">>

\* f'::set-output name={name}::{value}'
legacy_line(name, value) ==
    <<":", ":", "s", "e", "t", "-", "o", "u", "t", "p", "u", "t", " ",
      "n", "a", "m", "e", "=">> \o name \o <<":", ":">> \o value

\* a plausible slip: the file is opened with 'w'
write_truncating(content, line) ==
    line

\* open(path, 'a') and f.write(line)
write_appending(content, line) ==
    content \o line

----------------------------------------------------------------------------
(* main *)

\* line 96
resolve_token ==
    Get("INPUT_TOKEN", Get("GITHUB_TOKEN", <<>>))

NoPatterns ==
    "Error: No patterns provided"

NoToken ==
    "Error: No GitHub token provided"

NoRepository ==
    "Error: No repository name found"

\* a plausible slip: the repository is validated before the token
first_validation_error_repo_first(p, t, r) ==
    IF ~Truthy(p) THEN NoPatterns
    ELSE IF ~Truthy(r) THEN NoRepository
    ELSE IF ~Truthy(t) THEN NoToken
    ELSE ""

\* lines 101-111: the message of the first check that fails, '' when all pass
first_validation_error(p, t, r) ==
    IF ~Truthy(p) THEN NoPatterns
    ELSE IF ~Truthy(t) THEN NoToken
    ELSE IF ~Truthy(r) THEN NoRepository
    ELSE ""

\* the name and the value of the set_output call of lines 123, 124, 125
OutputPcs ==
    {"out_matches", "out_count", "out_files"}

output_name(at) ==
    IF at = "out_matches" THEN <<"m", "a", "t", "c", "h", "e", "s">>
    ELSE IF at = "out_count" THEN <<"c", "o", "u", "n", "t">>
    ELSE <<"f", "i", "l", "e", "s">>

\* a plausible slip: the count is that of the changed files
output_value_changed_count(at, matched, changed) ==
    IF at = "out_matches"
        THEN IF matched # <<>> THEN <<"t", "r", "u", "e">> ELSE <<"f", "a", "l", "s", "e">>
    ELSE IF at = "out_count" THEN str(Len(changed))
    ELSE json_dumps(matched)

output_value(at, matched, changed) ==
    IF at = "out_matches"
        THEN IF matched # <<>> THEN <<"t", "r", "u", "e">> ELSE <<"f", "a", "l", "s", "e">>
    ELSE IF at = "out_count" THEN str(Len(matched))
    ELSE json_dumps(matched)

after_output(at) ==
    IF at = "out_matches" THEN "out_count"
    ELSE IF at = "out_count" THEN "out_files"
    ELSE "exit"

\* print(..., file=sys.stderr); sys.exit(1)
Exit1(msg, exc) ==
    /\ stderr' = Append(stderr, Message(msg, exc))
    /\ exit_code' = 1
    /\ pc' = "exited"

\* lines 95-99
MainReadInputs ==
    /\ pc = "start"
    /\ patterns_input' = Get("INPUT_PATTERNS", <<>>)
    /\ token' = resolve_token
    /\ base_ref' = Get("INPUT_BASE_REF", None)
    /\ head_ref' = Get("INPUT_HEAD_REF", None)
    /\ repo_name' = Get("GITHUB_REPOSITORY", <<>>)
    /\ pc' = "validate"
    /\ UNCHANGED <<environ, patterns, github_client, changed_files, matched_files,
                   stdout, sink, exit_code, stderr, sink0, gcfVars, unitVars>>

\* lines 101-111
MainValidate ==
    /\ pc = "validate"
    /\ LET err == first_validation_error(patterns_input, token, repo_name)
       IN  IF err # "" THEN Exit1(err, NoException)
           ELSE pc' = "parse" /\ UNCHANGED <<stderr, exit_code>>
    /\ UNCHANGED <<environ, patterns_input, token, base_ref, head_ref, repo_name,
                   patterns, github_client, changed_files, matched_files, stdout,
                   sink, sink0, gcfVars, unitVars>>

\* lines 113-114, and the handler of lines 127-129 for the ValueError
MainParsePatterns ==
    /\ pc = "parse"
    /\ LET r == parse_patterns(patterns_input)
       IN  IF r.raised # ""
               THEN Exit1("Error: No valid patterns found in input", r.raised)
                    /\ UNCHANGED patterns
           ELSE patterns' = r.value /\ pc' = "client" /\ UNCHANGED <<stderr, exit_code>>
    /\ UNCHANGED <<environ, patterns_input, token, base_ref, head_ref, repo_name,
                   github_client, changed_files, matched_files, stdout, sink, sink0,
                   gcfVars, unitVars>>

\* lines 116-117: the client is built and get_changed_files entered
MainCallGetChangedFiles ==
    /\ pc = "client"
    /\ github_client' = token
    /\ gcf_base_ref' = base_ref
    /\ gcf_head_ref' = head_ref
    /\ pc' = "get_repo"
    /\ UNCHANGED <<environ, patterns_input, token, base_ref, head_ref, repo_name,
                   patterns, changed_files, matched_files, stdout, sink, exit_code,
                   stderr, sink0, event_file, pr_number, ret, calls, unitVars>>

\* lines 117-121: get_changed_files has returned
MainMatchFiles ==
    /\ pc = "returned"
    /\ changed_files' = ret
    /\ matched_files' = match_files(ret, patterns)
    /\ pc' = "out_matches"
    /\ UNCHANGED <<environ, patterns_input, token, base_ref, head_ref, repo_name,
                   patterns, github_client, stdout, sink, exit_code, stderr, sink0,
                   gcfVars, unitVars>>

\* lines 123-125 with set_output, lines 84-89: the line is appended to the file
\* of GITHUB_OUTPUT, or open()/write() raises an OSError that line 127 catches;
\* without GITHUB_OUTPUT the legacy line is printed
MainSetOutput ==
    /\ pc \in OutputPcs
    /\ LET name == output_name(pc)
           value == output_value(pc, matched_files, changed_files)
       IN  IF "GITHUB_OUTPUT" \in DOMAIN environ
               THEN \/ /\ sink' = write_appending(sink, output_line(name, value))
                       /\ pc' = after_output(pc)
                       /\ UNCHANGED <<stdout, stderr, exit_code>>
                    \/ /\ Exit1("Error: cannot write the output file", "OSError")
                       /\ UNCHANGED <<stdout, sink>>
           ELSE /\ stdout' = Append(stdout, legacy_line(name, value))
                /\ pc' = after_output(pc)
                /\ UNCHANGED <<sink, stderr, exit_code>>
    /\ UNCHANGED <<environ, patterns_input, token, base_ref, head_ref, repo_name,
                   patterns, github_client, changed_files, matched_files, sink0,
                   gcfVars, unitVars>>

\* line 126: sys.exit(0) raises SystemExit, which line 127 does not catch
MainExit0 ==
    /\ pc = "exit"
    /\ exit_code' = 0
    /\ pc' = "exited"
    /\ UNCHANGED <<environ, patterns_input, token, base_ref, head_ref, repo_name,
                   patterns, github_client, changed_files, matched_files, stdout,
                   sink, stderr, sink0, gcfVars, unitVars>>

main ==
    \/ MainReadInputs
    \/ MainValidate
    \/ MainParsePatterns
    \/ MainCallGetChangedFiles
    \/ MainMatchFiles
    \/ MainSetOutput
    \/ MainExit0

----------------------------------------------------------------------------
(* the runs *)

\* nothing of main() or get_changed_files has run
Idle ==
    /\ patterns_input = None
    /\ token = None
    /\ patterns = <<>>
    /\ github_client = None
    /\ event_file = Unread
    /\ pr_number = 0
    /\ ret = <<>>
    /\ changed_files = <<>>
    /\ matched_files = <<>>
    /\ calls = <<>>
    /\ stderr = <<>>
    /\ stdout = <<>>
    /\ sink = sink0
    /\ exit_code = NoExit

NoUnit ==
    /\ text = None
    /\ parsed = Returned(<<>>)
    /\ files = <<>>
    /\ pats = <<>>
    /\ matches = <<>>

\* a run of main() in some environment
Init ==
    /\ pc = "start"
    /\ \E c \in MainEnvChoices : environ = Present(c)
    /\ sink0 \in (IF "GITHUB_OUTPUT" \in DOMAIN environ THEN PriorSinks ELSE {<<>>})
    /\ base_ref = None
    /\ head_ref = None
    /\ repo_name = None
    /\ gcf_base_ref = None
    /\ gcf_head_ref = None
    /\ Idle
    /\ NoUnit

Next ==
    main \/ get_changed_files

Spec ==
    Init /\ [][Next]_vars

\* a call get_changed_files(github_client, repo_name, base_ref, head_ref)
InitResolver ==
    /\ pc = "get_repo"
    /\ \E c \in ResolverEnvChoices : environ = Present(c)
    /\ sink0 = <<>>
    /\ base_ref \in BaseRefArgs
    /\ head_ref \in HeadRefArgs
    /\ repo_name = <<"o", "/", "r">>
    /\ gcf_base_ref = base_ref
    /\ gcf_head_ref = head_ref
    /\ Idle
    /\ NoUnit

NextResolver ==
    get_changed_files

SpecResolver ==
    InitResolver /\ [][NextResolver]_vars

NoRun ==
    /\ environ = <<>>
    /\ sink0 = <<>>
    /\ base_ref = None
    /\ head_ref = None
    /\ repo_name = None
    /\ gcf_base_ref = None
    /\ gcf_head_ref = None
    /\ Idle

\* a call parse_patterns(text)
InitParse ==
    /\ pc = "parse_call"
    /\ text \in SeqUpTo(TextAlphabet, MaxTextLen) \cup {None}
    /\ parsed = Returned(<<>>)
    /\ files = <<>>
    /\ pats = <<>>
    /\ matches = <<>>
    /\ NoRun

ParseCall ==
    /\ pc = "parse_call"
    /\ parsed' = parse_patterns(text)
    /\ pc' = "parse_done"
    /\ UNCHANGED <<environ, base_ref, head_ref, repo_name, stderr, sink0, mainVars,
                   gcfVars, text, files, pats, matches>>

SpecParse ==
    InitParse /\ [][ParseCall]_vars

\* a call match_files(files, pats)
InitMatch ==
    /\ pc = "match_call"
    /\ files \in SeqUpTo(FileNames, MaxFiles)
    /\ pats \in SeqUpTo(PatternSet, MaxPatterns)
    /\ matches = <<>>
    /\ text = None
    /\ parsed = Returned(<<>>)
    /\ NoRun

MatchCall ==
    /\ pc = "match_call"
    /\ matches' = match_files(files, pats)
    /\ pc' = "match_done"
    /\ UNCHANGED <<environ, base_ref, head_ref, repo_name, stderr, sink0, mainVars,
                   gcfVars, text, parsed, files, pats>>

SpecMatch ==
    InitMatch /\ [][MatchCall]_vars

----------------------------------------------------------------------------
(* the claims *)

Last(q) ==
    q[Len(q)]

IsSet(k) ==
    k \in DOMAIN environ

\* the names of a listing, in the order the metadata source reported them
Reported(listing) ==
    [i \in 1..Len(listing) |-> listing[i].filename]

MatchesLine(m) ==
    <<"m", "a", "t", "c", "h", "e", "s", "=">>
    \o (IF Len(m) > 0 THEN <<"t", "r", "u", "e">> ELSE <<"f", "a", "l", "s", "e">>)
    \o <<"\n">>

CountLine(m) ==
    <<"c", "o", "u", "n", "t", "=">> \o str(Len(m)) \o <<"\n">>

FilesLine(m) ==
    <<"f", "i", "l", "e", "s", "=">> \o json_dumps(m) \o <<"\n">>

Newlines(s) ==
    Cardinality({i \in 1..Len(s) : s[i] = "\n"})

\* C1: when the pattern text, the access token or the repository identifier is
\* missing or empty, the run ends with exit code 1, the only error printed is that
\* of the first missing input in the order patterns, token, repository, and no
\* metadata-source call and no set_output call has happened.
C1_ValidationOrder ==
    LET noPatterns == ~Truthy(Get("INPUT_PATTERNS", None))
        noToken == ~Truthy(token)
        noRepository == ~Truthy(Get("GITHUB_REPOSITORY", None))
        expected == IF noPatterns THEN NoPatterns
                    ELSE IF noToken THEN NoToken
                    ELSE NoRepository
    IN  (pc \notin {"start", "validate"} /\ (noPatterns \/ noToken \/ noRepository))
        => /\ pc = "exited"
           /\ exit_code = 1
           /\ stderr = <<Message(expected, NoException)>>
           /\ calls = <<>>
           /\ github_client = None
           /\ sink = sink0
           /\ stdout = <<>>

\* the token and the repository are both missing: the token's error is reported
C1_Witness ==
    /\ pc = "exited"
    /\ Truthy(Get("INPUT_PATTERNS", None))
    /\ ~Truthy(token)
    /\ ~Truthy(Get("GITHUB_REPOSITORY", None))
    /\ stderr = <<Message(NoToken, NoException)>>

\* C2: a run that ends with exit code 0 with GITHUB_OUTPUT set leaves the sink
\* equal to its prior content followed by exactly three lines, matches, count and
\* files in that order: files the JSON array of match_files(changed_files,
\* patterns), count its decimal length, matches 'true' exactly when count > 0.
C2_OutputsConsistent ==
    (exit_code = 0 /\ IsSet("GITHUB_OUTPUT"))
    => LET m == match_files(ret, patterns)
           written == SubSeq(sink, Len(sink0) + 1, Len(sink))
       IN  /\ Len(sink) >= Len(sink0)
           /\ SubSeq(sink, 1, Len(sink0)) = sink0
           /\ written = MatchesLine(m) \o CountLine(m) \o FilesLine(m)
           /\ Newlines(written) = 3
           /\ changed_files = ret
           /\ (m = <<>> =>
                written = <<"m", "a", "t", "c", "h", "e", "s", "=", "f", "a", "l", "s", "e",
                            "\n", "c", "o", "u", "n", "t", "=", "0", "\n",
                            "f", "i", "l", "e", "s", "=", "[", "]", "\n">>)
           /\ (m = <<<<"q", "\"", "j">>>> =>
                FilesLine(m) = <<"f", "i", "l", "e", "s", "=", "[", "\"", "q", "\\", "\"",
                                 "j", "\"", "]", "\n">>)

\* two files changed, one of them matches, and the sink held a line before
C2_Witness ==
    /\ exit_code = 0
    /\ IsSet("GITHUB_OUTPUT")
    /\ sink0 # <<>>
    /\ Len(changed_files) = 2
    /\ Len(matched_files) = 1

\* C3: match_files(files, patterns) is the files that match at least one pattern, in
\* the order of files, each entry at most once; with no patterns it is empty.
C3_MatchIsFilter ==
    pc = "match_done"
    => LET hit(f) == \E j \in 1..Len(pats) : fnmatch(f, pats[j])
       IN  /\ matches = SelectSeq(files, hit)
           /\ Len(matches) = Cardinality({i \in 1..Len(files) : hit(files[i])})
           /\ \A i \in 1..Len(files) : ~hit(files[i]) =>
                \A k \in 1..Len(matches) : matches[k] # files[i]
           /\ (pats = <<>> => matches = <<>>)

\* a file that matches both patterns, after a file that matches none
C3_Witness ==
    /\ pc = "match_done"
    /\ Len(files) = 2
    /\ Len(pats) = 2
    /\ ~fnmatch(files[1], pats[1]) /\ ~fnmatch(files[1], pats[2])
    /\ fnmatch(files[2], pats[1]) /\ fnmatch(files[2], pats[2])
    /\ matches = <<files[2]>>

\* the maximal runs of characters of s that are no whitespace, from left to right
TokenStarts(s) ==
    {i \in 1..Len(s) : s[i] \notin Whitespace /\ (i = 1 \/ s[i - 1] \in Whitespace)}

TokenEnd(s, i) ==
    Max({j \in i..Len(s) : \A k \in i..j : s[k] \notin Whitespace})

Tokens(s) ==
    [k \in 1..Cardinality(TokenStarts(s)) |->
        LET i == CHOOSE x \in TokenStarts(s) :
                    Cardinality({y \in TokenStarts(s) : y < x}) = k - 1
        IN  SubSeq(s, i, TokenEnd(s, i))]

\* C4: parse_patterns returns the empty sequence for the empty or absent text,
\* raises ValueError for a non-empty text of whitespace alone, and for any other
\* text returns the non-empty sequence of its whitespace-separated tokens in
\* order, each non-empty and free of whitespace.
C4_ParseOutcomes ==
    pc = "parse_done"
    => IF text = None \/ text = <<>>
           THEN parsed = Returned(<<>>)
       ELSE IF \A i \in 1..Len(text) : text[i] \in Whitespace
           THEN parsed.raised = "ValueError" /\ parsed.value = <<>>
       ELSE /\ parsed.raised = ""
            /\ parsed.value = Tokens(text)
            /\ parsed.value # <<>>
            /\ \A k \in 1..Len(parsed.value) :
                /\ parsed.value[k] # <<>>
                /\ \A i \in 1..Len(parsed.value[k]) : parsed.value[k][i] \notin Whitespace

\* leading whitespace, then two tokens
C4_Witness ==
    /\ pc = "parse_done"
    /\ text # None
    /\ Len(text) = MaxTextLen
    /\ text[1] \in Whitespace
    /\ parsed.raised = ""
    /\ Len(parsed.value) = 2

\* the event-context file holds an object whose pull_request is an object with a number
PrEvent ==
    /\ event_file.state = "json"
    /\ event_file.data.type = "dict"
    /\ "pull_request" \in event_file.data.keys
    /\ event_file.data.items[1].type = "dict"
    /\ "number" \in event_file.data.items[1].keys
    /\ event_file.data.items[1].items[1].type = "int"

PrEventNumber ==
    event_file.data.items[1].items[1].value

PrStepFailed ==
    /\ IsSet("GITHUB_EVENT_PATH")
    /\ event_file.state # "unread"
    /\ ~PrEvent

CompareCalled(base, head) ==
    \E i \in 1..Len(calls) : calls[i].op = "compare" /\ calls[i].args = <<base, head>>

\* C6: whenever the pull-request step fails and a head reference is resolvable,
\* compare(base, head) is still called and its file list returned.
C6_SoftFallback ==
    (pc = "returned" /\ PrStepFailed /\ Truthy(resolve_head(head_ref)))
    => /\ CompareCalled(resolve_base(base_ref), resolve_head(head_ref))
       /\ Last(calls).outcome = "ok" => ret = Reported(Last(calls).listing)

\* C7: without pull-request context, the base is the override, else
\* GITHUB_BASE_REF, else 'main'; whenever the override, GITHUB_HEAD_REF or
\* GITHUB_SHA supplies a non-empty head, compare(base, head) is called with the
\* first of them and its files returned; only when none does is the empty
\* sequence returned with the warning.
C7_RefResolution ==
    LET base == IF Truthy(base_ref) THEN base_ref ELSE Get("GITHUB_BASE_REF", MainRef)
        head == IF Truthy(head_ref) THEN head_ref
                ELSE IF Truthy(Get("GITHUB_HEAD_REF", None)) THEN environ["GITHUB_HEAD_REF"]
                ELSE Get("GITHUB_SHA", None)
    IN  (pc = "returned" /\ ~IsSet("GITHUB_EVENT_PATH") /\ calls[1].outcome = "ok")
        => IF Truthy(head)
               THEN /\ CompareCalled(base, head)
                    /\ Last(calls).outcome = "ok" => ret = Reported(Last(calls).listing)
           ELSE /\ ret = <<>>
                /\ Len(calls) = 1
                /\ Last(stderr).msg = "Warning: Could not determine changed files"

\* a call of the metadata-source client raised
ClientFailed ==
    \E i \in 1..Len(calls) : calls[i].outcome # "ok"

\* matches=false, count=0 and files=[] are emitted, to the sink or as legacy lines
EmittedNoMatches ==
    IF IsSet("GITHUB_OUTPUT")
        THEN sink = sink0 \o MatchesLine(<<>>) \o CountLine(<<>>) \o FilesLine(<<>>)
    ELSE stdout = <<legacy_line(output_name("out_matches"), <<"f", "a", "l", "s", "e">>),
                    legacy_line(output_name("out_count"), <<"0">>),
                    legacy_line(output_name("out_files"), <<"[", "]">>)>>

C9_Original ==
    exit_code = 1 => sink = sink0

\* C9, amended: a run that ends with exit code 1 has written nothing to the sink,
\* unless a set_output call raised after earlier ones succeeded: the sink then
\* holds its prior content followed by the lines of those calls, the matches
\* line or the matches and count lines, and never the files line.
C9_Amended ==
    exit_code = 1
    => \/ sink = sink0
       \/ /\ Last(stderr).exc = "OSError"
          /\ sink \in {sink0 \o MatchesLine(matched_files),
                       sink0 \o MatchesLine(matched_files) \o CountLine(matched_files)}

\* the second set_output call raised
C9_Witness ==
    /\ exit_code = 1
    /\ sink0 # <<>>
    /\ Last(stderr).exc = "OSError"
    /\ sink = sink0 \o MatchesLine(matched_files)

\* C10: when INPUT_TOKEN or GITHUB_TOKEN is a non-empty string, and the patterns
\* and the repository are present, the token validation passes and the client is
\* built with the first non-empty of the two in that order.
C10_TokenFallback ==
    LET first == IF Truthy(Get("INPUT_TOKEN", None)) THEN environ["INPUT_TOKEN"]
                 ELSE Get("GITHUB_TOKEN", None)
    IN  (/\ Truthy(first)
         /\ Truthy(Get("INPUT_PATTERNS", None))
         /\ Truthy(Get("GITHUB_REPOSITORY", None))
         /\ pc \notin {"start", "validate"})
        => /\ \A i \in 1..Len(stderr) : stderr[i].msg # NoToken
           /\ github_client # None => github_client = first

====
